---- MODULE Spec2Model ----
(***************************************************************************)
(* The update pipeline of modstore (src/update_apps.py): one run loads the *)
(* catalog apps.yaml, then makes three passes over its apps: discovery of  *)
(* new store versions, decryption and upload, tweak and upload.  The       *)
(* collaborators (App Store lookup, decryption bot, uDrop, cyan, the file  *)
(* system) answer nondeterministically.  One action models the whole body  *)
(* of one loop iteration.  Three further specifications exercise parts of *)
(* the program on their own: ClientSpec the methods of one UDropClient     *)
(* object (udrop_client.py), SessionSpec the calls of upload_app with the  *)
(* client each of them creates (utilities.py), RoundTripSpec the saving    *)
(* and loading of a catalog (models.py).                                   *)
(***************************************************************************)
EXTENDS Integers, Sequences, FiniteSets, TLC

\* ---------------------------------------------------------------- bounds
MaxRuns == 2
MaxSaveFailures == 1
MaxDylibs == 1
MaxRequests == 3
MaxHistory == 2

\* ---------------------------------------------------------------- values
AppNames == <<"A", "B">>
Apps == 1..Len(AppNames)
VersionStrings == {"1.0", "1.1"}
\* an unset Optional[HttpUrl]: falsy in "not x", like the empty string
None == <<>>
\* a URL is a string, i.e. a sequence of characters
UrlPrefix == <<"h", "t", "t", "p", "s", ":", "/", "/", "u", "/">>
\* the link uDrop gives the n-th file it stored for app a in run r
Url(r, a, n) == UrlPrefix \o <<r, a, n>>
\* a collaborator call that raised
Fail == "Fail"
Ok == "ok"

VARIABLES
    pc,        \* "idle" | "discovery" | "decryption" | "tweak" | "done" | "crashed"
    i,         \* position of the running for loop in apps_config.apps
    catalog,   \* apps_config.apps, the in-memory catalog
    disk,      \* apps.yaml: [ok |-> readable, apps |-> the dumped document]
    files,     \* the local files of the working directory
    run,       \* number of runs started so far
    faults,    \* number of failed writes of apps.yaml so far
    calls,     \* the calls made in the current run, with their results
    prevCalls, \* the store lookups of the previous run and their results
    last,      \* the calls made by the latest loop iteration
    resume,    \* [on |-> the previous run was terminated right after a
               \*         decryption-stage save, cat |-> its catalog then]
    visited,   \* the loop iterations started in the current run, in order
    udrop      \* a UDropClient object: its credentials and the requests it sent

\* the state of the pipeline script
pipeline == <<pc, i, catalog, disk, files, run, faults, calls, prevCalls, last, resume, visited>>

vars == <<pc, i, catalog, disk, files, run, faults, calls, prevCalls, last, resume,
          visited, udrop>>

\* ------------------------------------------------------------ data model
\* models.py Version, as built from the store lookup
LatestVersion(v) ==
    [version |-> v, date |-> "2025-01-01", description |-> "notes",
     size |-> 100, minOSVersion |-> "15.0",
     decrypted_url |-> None, tweaked_url |-> None]

\* `not x` of Python on an Optional url
Unset(u) == u = None

\* app.versions[0]
HeadRecord(app) == app.versions[1]

\* the derived stage of a record
Stage(v) ==
    IF Unset(v.decrypted_url) /\ Unset(v.tweaked_url) THEN "DISCOVERED"
    ELSE IF ~Unset(v.decrypted_url) /\ Unset(v.tweaked_url) THEN "DECRYPTED"
    ELSE IF ~Unset(v.decrypted_url) THEN "TWEAKED"
    ELSE "INVALID"

\* ------------------------------------------------- catalog serialisation
\* The YAML implicit resolver, for the strings of this model: what a plain
\* (unquoted) scalar with this text is read as by yaml.safe_load.
YamlNulls == {"null", "~", ""}
YamlFloats == {"1.0", "1.1", "15.0"}
YamlTimestamps == {"2025-01-01"}
YamlResolve(text) ==
    IF text \in YamlNulls THEN "null"
    ELSE IF text \in YamlFloats THEN "float"
    ELSE IF text \in YamlTimestamps THEN "timestamp"
    ELSE "str"

\* every string written unquoted
DumpStr_Plain(x) == [style |-> "plain", text |-> x]

\* yaml.safe_dump of a str: quoted when the plain scalar would not be read
\* back as a str
DumpStr(x) ==
    [style |-> IF YamlResolve(x) = "str" THEN "plain" ELSE "quoted", text |-> x]

\* yaml.safe_load, then pydantic validation of a str field (for date: a
\* datetime field, given its ISO text)
ParseStr(y) ==
    IF y.style = "quoted" \/ YamlResolve(y.text) = "str" THEN y.text
    ELSE "ValidationError"

\* model_dump(mode='json') + yaml.safe_dump: an unset url is written as null
DumpUrl(u) == IF u = None THEN <<"n", "u", "l", "l">> ELSE u
DumpVersion(v) ==
    [v EXCEPT !.version = DumpStr(@), !.date = DumpStr(@),
              !.description = DumpStr(@), !.minOSVersion = DumpStr(@),
              !.decrypted_url = DumpUrl(@), !.tweaked_url = DumpUrl(@)]
DumpApp(app) ==
    [app EXCEPT !.name = DumpStr(@),
                !.versions = [k \in 1..Len(@) |-> DumpVersion(@[k])]]
Dump(cat) == [a \in 1..Len(cat) |-> DumpApp(cat[a])]

\* yaml.safe_load + pydantic validation: null is read as an unset url
ParseUrl(u) == IF u = <<"n", "u", "l", "l">> THEN None ELSE u
ParseVersion(v) ==
    [v EXCEPT !.version = ParseStr(@), !.date = ParseStr(@),
              !.description = ParseStr(@), !.minOSVersion = ParseStr(@),
              !.decrypted_url = ParseUrl(@), !.tweaked_url = ParseUrl(@)]
ParseApp(app) ==
    [app EXCEPT !.name = ParseStr(@),
                !.versions = [k \in 1..Len(@) |-> ParseVersion(@[k])]]
Parse(doc) == [a \in 1..Len(doc) |-> ParseApp(doc[a])]

CorruptDoc == [ok |-> FALSE, apps |-> <<>>]

\* to_yaml_file: open(file, 'w') truncates, then the document is written.
\* "failed": the file could not be opened; "truncated": the write broke off.
SaveResults == {Ok, "failed", "truncated"}
ToYamlFile(cat, old, s) ==
    IF s = Ok THEN [ok |-> TRUE, apps |-> Dump(cat)]
    ELSE IF s = "failed" THEN old
    ELSE CorruptDoc

SaveOutcomes == IF faults < MaxSaveFailures THEN SaveResults ELSE {Ok}
SaveFaults(s) == IF s = Ok THEN faults ELSE faults + 1

\* -------------------------------------------------------- uDrop client
\* udrop_client.py UDropClient.__init__: no credentials, nothing sent yet
\* op: the method called last; raised: the exception it ended with
NewClient ==
    [access_token |-> None, account_id |-> None, sent |-> <<>>,
     op |-> "__init__", raised |-> "none"]

\* ------------------------------------------------------------------ calls
Call(op, stage, a, res) == [op |-> op, stage |-> stage, app |-> a, res |-> res]

\* ---------------------------------------------------------------- initial
InitRecord(stage) ==
    [LatestVersion("1.0") EXCEPT
        !.decrypted_url = IF stage = "DISCOVERED" THEN None ELSE Url(0, 0, 1),
        !.tweaked_url = IF stage = "TWEAKED" THEN Url(0, 0, 2) ELSE None,
        !.size = IF stage = "TWEAKED" THEN 120 ELSE 100]
\* a finished record of the next version
NewerRecord ==
    [InitRecord("TWEAKED") EXCEPT !.version = "1.1",
        !.decrypted_url = Url(0, 0, 3), !.tweaked_url = Url(0, 0, 4)]
\* A tracked app starts with no version yet, or with one or two finished
\* ones; the other stages are reached by the runs.  The apps of one catalog
\* list the same number of dylibs.
InitHistories == {<<>>, <<InitRecord("TWEAKED")>>, <<NewerRecord, InitRecord("TWEAKED")>>}
DylibLists == {[k \in 1..n |-> k] : n \in 0..MaxDylibs}
InitCatalogs ==
    {[a \in Apps |-> [name |-> AppNames[a], dylibs |-> d, versions |-> h[a]]] :
        d \in DylibLists, h \in [Apps -> InitHistories]}

Init ==
    /\ pc = "idle"
    /\ i = 1
    /\ catalog = <<>>
    /\ \E c \in InitCatalogs : disk = [ok |-> TRUE, apps |-> Dump(c)]
    /\ files = {}
    /\ run = 0
    /\ faults = 0
    /\ calls = {}
    /\ prevCalls = {}
    /\ last = {}
    /\ resume = [on |-> FALSE, cat |-> <<>>]
    /\ visited = <<>>
    /\ udrop = NewClient

\* ------------------------------------------------------------- the run
Stopped == pc \in {"idle", "done", "crashed"}
Running == pc \in {"discovery", "decryption", "tweak"}

\* the loops in another order: tweak before decryption
NextStage_Swapped(s) ==
    IF s = "discovery" THEN "tweak"
    ELSE IF s = "tweak" THEN "decryption"
    ELSE "done"

NextStage(s) ==
    IF s = "discovery" THEN "decryption"
    ELSE IF s = "decryption" THEN "tweak"
    ELSE "done"

\* the for loop moves to the next app, or the next loop starts
Advance ==
    IF i < Len(catalog)
    THEN /\ i' = i + 1
         /\ pc' = pc
    ELSE /\ i' = 1
         /\ pc' = NextStage(pc)

\* an uncaught exception ends the process
Crash ==
    /\ pc' = "crashed"
    /\ i' = i

Lookups(cs) == {c \in cs : c.op = "lookup"}

\* a new process in a fresh working directory: AppsConfig.from_yaml_file(apps_file)
Load ==
    /\ Stopped
    /\ run < MaxRuns
    /\ disk.ok
    /\ catalog' = Parse(disk.apps)
    /\ pc' = "discovery"
    /\ i' = 1
    /\ run' = run + 1
    /\ prevCalls' = Lookups(calls)
    /\ calls' = {}
    /\ last' = {}
    /\ files' = {}
    /\ resume' = IF pc = "idle" THEN resume ELSE [on |-> FALSE, cat |-> <<>>]
    /\ visited' = <<>>
    /\ UNCHANGED <<disk, faults, udrop>>

\* the document cannot be parsed: the exception is not caught
LoadFail ==
    /\ Stopped
    /\ run < MaxRuns
    /\ ~disk.ok
    /\ pc' = "crashed"
    /\ run' = run + 1
    /\ prevCalls' = Lookups(calls)
    /\ calls' = {}
    /\ last' = {}
    /\ files' = {}
    /\ catalog' = <<>>
    /\ resume' = [on |-> FALSE, cat |-> <<>>]
    /\ visited' = <<>>
    /\ UNCHANGED <<i, disk, faults, udrop>>

\* -------------------------------------------------------- discovery stage
LookupResults == {Fail} \cup VersionStrings

\* update_apps.py line 19
NeedsInsert(app, latest) ==
    app.versions = <<>> \/ app.versions[Len(app.versions)].version /= latest.version

\* the record is put at the end of the history
InsertVersion_AtEnd(app, latest) == [app EXCEPT !.versions = Append(@, latest)]

\* update_apps.py line 22
InsertVersion(app, latest) == [app EXCEPT !.versions = <<latest>> \o @]

\* one loop iteration: it is entered for the app at position i, and the
\* calls it makes are added to the log of the run
Visit(stage, a) == [stage |-> stage, app |-> a]
Log(cs) ==
    /\ calls' = calls \cup cs
    /\ last' = cs
    /\ visited' = Append(visited, Visit(pc, i))

DiscoveryStep ==
    /\ pc = "discovery"
    /\ \E r \in LookupResults :
        LET app == catalog[i]
            lookup == Call("lookup", "discovery", i, r)
        IN  IF r = Fail \/ ~NeedsInsert(app, LatestVersion(r))
            THEN /\ Log({lookup})
                 /\ UNCHANGED <<catalog, disk, faults>>
            ELSE \E s \in SaveOutcomes :
                 /\ catalog' = [catalog EXCEPT ![i] = InsertVersion(app, LatestVersion(r))]
                 /\ disk' = ToYamlFile(catalog', disk, s)
                 /\ faults' = SaveFaults(s)
                 /\ Log({lookup, Call("save", "discovery", i, s)})
    /\ Advance
    /\ UNCHANGED <<files, run, prevCalls, resume, udrop>>

\* ------------------------------------------------------- local files
LocalFile(kind, a, k) == [kind |-> kind, app |-> a, k |-> k]
\* the file the decryption bot sent
BotFile(a) == LocalFile("ipa", a, 0)
\* downloads/{name}_{version}_decrypted.ipa
DecryptedFile(a) == LocalFile("decrypted", a, 0)
\* downloads/{name}_{version}_tweaked.ipa
TweakedFile(a) == LocalFile("tweaked", a, 0)
DylibFile(a, k) == LocalFile("dylib", a, k)

\* ------------------------------------------------------- artifact store
UploadResults(a, n) ==
    {[ok |-> FALSE, url |-> None], [ok |-> TRUE, url |-> Url(run, a, n)]}

\* the local file is not deleted after the upload
UploadApp_KeepsFile(fs, file, renamed, u) ==
    LET fs1 == (fs \ {file}) \cup {renamed}
    IN  IF u.ok
        THEN [ok |-> TRUE, url |-> u.url, files |-> fs1]
        ELSE [ok |-> FALSE, url |-> None, files |-> fs1]

\* utilities.py upload_app: rename, upload, delete the local file
UploadApp(fs, file, renamed, u) ==
    LET fs1 == (fs \ {file}) \cup {renamed}
    IN  IF u.ok
        THEN [ok |-> TRUE, url |-> u.url, files |-> fs1 \ {renamed}]
        ELSE [ok |-> FALSE, url |-> None, files |-> fs1]

\* ------------------------------------------------------ decryption stage
DecryptResults == {Fail} \cup VersionStrings

\* the guard left out: every head is decrypted again
DecryptionGuard_Always(v) == TRUE

\* update_apps.py line 30
DecryptionGuard(v) == Unset(v.decrypted_url)

\* the version check left out
VersionMismatch_Never(reported, v) == FALSE

\* update_apps.py line 42
VersionMismatch(reported, v) == reported /= v.version

\* the size is reset with the link
SetDecrypted_AndSize(v, url) == [v EXCEPT !.decrypted_url = url, !.size = 0]

\* the link stored in the other url field
SetDecrypted_WrongField(v, url) == [v EXCEPT !.tweaked_url = url]

\* update_apps.py line 51
SetDecrypted(v, url) == [v EXCEPT !.decrypted_url = url]

DecryptionStep ==
    /\ pc = "decryption"
    /\ LET app == catalog[i]
       IN  IF app.versions = <<>>
           THEN \* IndexError at line 30, outside every try
                /\ Crash
                /\ Log({Call("crash", "decryption", i, "IndexError")})
                /\ UNCHANGED <<catalog, disk, faults, files>>
           ELSE IF ~DecryptionGuard(HeadRecord(app))
           THEN /\ Advance
                /\ Log({})
                /\ UNCHANGED <<catalog, disk, faults, files>>
           ELSE \E d \in DecryptResults :
                LET decrypt == Call("decrypt", "decryption", i, d)
                IN  /\ Advance
                    /\ IF d = Fail
                       THEN /\ Log({decrypt})
                            /\ UNCHANGED <<catalog, disk, faults, files>>
                       ELSE IF VersionMismatch(d, HeadRecord(app))
                       THEN /\ Log({decrypt})
                            /\ files' = files \cup {BotFile(i)}
                            /\ UNCHANGED <<catalog, disk, faults>>
                       ELSE \E u \in UploadResults(i, 1) :
                            LET up == UploadApp(files \cup {BotFile(i)}, BotFile(i),
                                                DecryptedFile(i), u)
                            IN  IF ~up.ok
                                THEN /\ Log({decrypt, Call("upload", "decryption", i, Fail)})
                                     /\ files' = up.files
                                     /\ UNCHANGED <<catalog, disk, faults>>
                                ELSE \E s \in SaveOutcomes :
                                     /\ catalog' = [catalog EXCEPT ![i].versions[1] =
                                                        SetDecrypted(@, up.url)]
                                     /\ disk' = ToYamlFile(catalog', disk, s)
                                     /\ faults' = SaveFaults(s)
                                     /\ files' = up.files
                                     /\ Log({decrypt, Call("upload", "decryption", i, Ok),
                                             Call("save", "decryption", i, s)})
    /\ UNCHANGED <<run, prevCalls, resume, udrop>>

\* the guard left out: every head is tweaked
TweakGuard_Always(v) == TRUE

\* ----------------------------------------------------------- tweak stage
\* update_apps.py line 61
TweakGuard(v) == ~Unset(v.decrypted_url) /\ Unset(v.tweaked_url)

\* utilities.py download_dylibs returns what download_file_from_url
\* returns: pathlib.Path objects
DylibPaths(a, n) == [k \in 1..n |-> [type |-> "Path", file |-> DylibFile(a, k)]]
PathFiles(paths) == {paths[k].file : k \in 1..Len(paths)}

\* ",".join(dylibs_paths) raises TypeError on an item that is not a str
JoinRaises(paths) == \E k \in 1..Len(paths) : paths[k].type /= "str"

\* subprocess.run(["cyan", ...], check=True): non-zero exit status raises
\* CalledProcessError, a program that cannot be started raises OSError
PatchResults == {Ok, "CalledProcessError", "OSError"}

\* `_, download_url = upload_app(...)`: unpacking a str needs 2 characters
Unpack(url) ==
    IF Len(url) = 2 THEN [ok |-> TRUE, second |-> <<url[2]>>]
    ELSE [ok |-> FALSE, second |-> None]

\* the decrypted artifact is left behind
Cleanup_KeepsArtifact(fs, a, paths) == fs \ PathFiles(paths)

\* update_apps.py lines 94-101 and 106-108: unlink the decrypted artifact and
\* every downloaded component
Cleanup(fs, a, paths) == (fs \ {DecryptedFile(a)}) \ PathFiles(paths)

\* update_apps.py lines 117-118
SetTweaked(v, url, size) == [v EXCEPT !.tweaked_url = url, !.size = size]

TweakStep ==
    /\ pc = "tweak"
    /\ LET app == catalog[i]
       IN  IF app.versions = <<>>
           THEN \* IndexError at line 61, outside every try
                /\ Crash
                /\ Log({Call("crash", "tweak", i, "IndexError")})
                /\ UNCHANGED <<catalog, disk, faults, files>>
           ELSE IF ~TweakGuard(HeadRecord(app))
           THEN /\ Advance
                /\ Log({})
                /\ UNCHANGED <<catalog, disk, faults, files>>
           ELSE \E n \in 0..Len(app.dylibs) :
                LET paths == DylibPaths(i, n)
                    fs1 == files \cup PathFiles(paths)
                    fs2 == fs1 \cup {DecryptedFile(i)}
                    cleaned == Cleanup(fs2, i, paths)
                    dylibs == Call("download_dylibs", "tweak", i,
                                   IF n < Len(app.dylibs) THEN Fail ELSE Ok)
                IN  IF n < Len(app.dylibs)
                    THEN \* a component download failed
                         /\ Advance
                         /\ Log({dylibs})
                         /\ files' = fs1
                         /\ UNCHANGED <<catalog, disk, faults>>
                    ELSE \E dl \in {Ok, Fail} :
                    LET download == Call("download_file", "tweak", i, dl)
                    IN  IF dl = Fail
                    THEN /\ Advance
                         /\ Log({dylibs, download})
                         /\ files' = fs1
                         /\ UNCHANGED <<catalog, disk, faults>>
                    ELSE IF JoinRaises(paths)
                    THEN \* TypeError: only CalledProcessError is caught
                         /\ Crash
                         /\ Log({dylibs, download, Call("crash", "tweak", i, "TypeError")})
                         /\ files' = fs2
                         /\ UNCHANGED <<catalog, disk, faults>>
                    ELSE \E p \in PatchResults :
                    LET cyan == Call("cyan", "tweak", i, p)
                    IN  IF p = "OSError"
                    THEN \* the program cannot be started: not caught either
                         /\ Crash
                         /\ Log({dylibs, download, cyan, Call("crash", "tweak", i, "OSError")})
                         /\ files' = fs2
                         /\ UNCHANGED <<catalog, disk, faults>>
                    ELSE IF p = "CalledProcessError"
                    THEN /\ Advance
                         /\ Log({dylibs, download, cyan})
                         /\ files' = cleaned
                         /\ UNCHANGED <<catalog, disk, faults>>
                    ELSE \E u \in UploadResults(i, 2) :
                    LET up == UploadApp(cleaned \cup {TweakedFile(i)},
                                        TweakedFile(i), TweakedFile(i), u)
                        pair == Unpack(up.url)
                    IN  IF ~up.ok
                    THEN /\ Advance
                         /\ Log({dylibs, download, cyan, Call("upload", "tweak", i, Fail)})
                         /\ files' = up.files
                         /\ UNCHANGED <<catalog, disk, faults>>
                    ELSE IF ~pair.ok
                    THEN \* ValueError, caught at line 121
                         /\ Advance
                         /\ Log({dylibs, download, cyan, Call("upload", "tweak", i, Ok)})
                         /\ files' = up.files
                         /\ UNCHANGED <<catalog, disk, faults>>
                    ELSE IF TweakedFile(i) \notin up.files
                    THEN \* tweaked_url is set, then stat() raises FileNotFoundError
                         /\ Advance
                         /\ Log({dylibs, download, cyan, Call("upload", "tweak", i, Ok)})
                         /\ catalog' = [catalog EXCEPT ![i].versions[1].tweaked_url =
                                            pair.second]
                         /\ files' = up.files
                         /\ UNCHANGED <<disk, faults>>
                    ELSE \E s \in SaveOutcomes :
                         /\ Advance
                         /\ Log({dylibs, download, cyan, Call("upload", "tweak", i, Ok),
                                 Call("save", "tweak", i, s)})
                         /\ catalog' = [catalog EXCEPT ![i].versions[1] =
                                            SetTweaked(@, pair.second, 120)]
                         /\ disk' = ToYamlFile(catalog', disk, s)
                         /\ faults' = SaveFaults(s)
                         /\ files' = up.files \ {TweakedFile(i)}
    /\ UNCHANGED <<run, prevCalls, resume, udrop>>

\* ----------------------------------------------------------- termination
\* the process is terminated from outside right after a decryption-stage
\* save, before the tweak loop handles its first app
AfterDecryptionSave ==
    /\ pc = "decryption" \/ (pc = "tweak" /\ i = 1)
    /\ \E c \in last : c.op = "save" /\ c.stage = "decryption" /\ c.res = Ok

Terminate ==
    /\ Running
    /\ AfterDecryptionSave
    /\ pc' = "idle"
    /\ resume' = [on |-> TRUE, cat |-> catalog]
    /\ UNCHANGED <<i, catalog, disk, files, run, faults, calls, prevCalls, last,
                   visited, udrop>>

Next ==
    \/ Load
    \/ LoadFail
    \/ DiscoveryStep
    \/ DecryptionStep
    \/ TweakStep
    \/ Terminate

Spec == Init /\ [][Next]_vars

\* ------------------------------------------- the uDrop client on its own
\* a credential the server hands out: a string, or nothing
Credentials == {None, <<"k">>}

\* what the authorize request can bring back
AuthorizeResponses ==
    {[kind |-> k, token |-> None, account |-> None] : k \in {"error", "nodata", "no_token"}}
    \cup {[kind |-> "no_account", token |-> t, account |-> None] : t \in Credentials}
    \cup {[kind |-> "data", token |-> t, account |-> a] : t \in Credentials, a \in Credentials}

\* _make_request posts to an endpoint
Sent(c, endpoint) == [c EXCEPT !.sent = Append(@, endpoint)]
Raise(c, op, e) == [c EXCEPT !.op = op, !.raised = e]
Return(c, op) == [c EXCEPT !.op = op, !.raised = "none"]

\* udrop_client.py lines 85-103
Authorize(c, r) ==
    LET c1 == Sent(c, "authorize")
    IN  CASE r.kind = "error" -> Raise(c1, "authorize", "UDropAPIError")
          [] r.kind = "nodata" -> Return(c1, "authorize")
          [] r.kind = "no_token" -> Raise(c1, "authorize", "KeyError")
          [] r.kind = "no_account" ->
                Raise([c1 EXCEPT !.access_token = r.token], "authorize", "KeyError")
          [] r.kind = "data" ->
                Return([c1 EXCEPT !.access_token = r.token, !.account_id = r.account],
                       "authorize")

\* the account id is not looked at
EnsureAuthenticated_TokenOnly(c) == ~Unset(c.access_token)

\* udrop_client.py lines 128-131: TRUE when the check passes
EnsureAuthenticated(c) == ~(Unset(c.access_token) \/ Unset(c.account_id))

\* udrop_client.py lines 105-126
DisableAccessToken(c, o) ==
    IF Unset(c.access_token) \/ Unset(c.account_id)
    THEN Raise(c, "disable_access_token", "NotAuthenticated")
    ELSE IF o = Ok
    THEN Return([Sent(c, "disable_access_token") EXCEPT
                    !.access_token = None, !.account_id = None],
                "disable_access_token")
    ELSE Raise(Sent(c, "disable_access_token"), "disable_access_token", "UDropAPIError")

\* the operations that check, build the form data and post it to one
\* endpoint, named here by their endpoint (get_account_info ... move_folder)
Endpoints ==
    {"account/info", "account/package", "file/download", "file/info", "file/edit",
     "file/delete", "file/move", "file/copy", "folder/create", "folder/listing",
     "folder/info", "folder/edit", "folder/delete", "folder/move"}
Operation(c, endpoint, o) ==
    IF ~EnsureAuthenticated(c)
    THEN Raise(c, endpoint, "NotAuthenticated")
    ELSE IF o = Ok
    THEN Return(Sent(c, endpoint), endpoint)
    ELSE Raise(Sent(c, endpoint), endpoint, "UDropAPIError")

\* udrop_client.py lines 165-190: check, open the file, post it, then ask
\* download_file for the link
UploadOutcomes == {Ok, "no_file", "upload_error", "download_error"}
UploadFile(c, o) ==
    IF ~EnsureAuthenticated(c)
    THEN Raise(c, "upload_file", "NotAuthenticated")
    ELSE IF o = "no_file"
    THEN Raise(c, "upload_file", "OSError")
    ELSE IF o = "upload_error"
    THEN Raise(Sent(c, "file/upload"), "upload_file", "UDropAPIError")
    ELSE [Operation(Sent(c, "file/upload"), "file/download",
                    IF o = Ok THEN Ok ELSE Fail) EXCEPT !.op = "upload_file"]

\* a client object, and no pipeline run
ClientInit ==
    /\ pc = "idle"
    /\ i = 1
    /\ catalog = <<>>
    /\ disk = [ok |-> TRUE, apps |-> <<>>]
    /\ files = {}
    /\ run = 0
    /\ faults = 0
    /\ calls = {}
    /\ prevCalls = {}
    /\ last = {}
    /\ resume = [on |-> FALSE, cat |-> <<>>]
    /\ visited = <<>>
    /\ udrop = NewClient

CanSend == Len(udrop.sent) < MaxRequests

ClientAuthorize ==
    /\ CanSend
    /\ \E r \in AuthorizeResponses : udrop' = Authorize(udrop, r)
    /\ UNCHANGED pipeline

ClientDisable ==
    /\ CanSend
    /\ \E o \in {Ok, Fail} : udrop' = DisableAccessToken(udrop, o)
    /\ UNCHANGED pipeline

ClientUpload ==
    /\ CanSend
    /\ \E o \in UploadOutcomes : udrop' = UploadFile(udrop, o)
    /\ UNCHANGED pipeline

ClientOperation ==
    /\ CanSend
    /\ \E e \in Endpoints, o \in {Ok, Fail} : udrop' = Operation(udrop, e, o)
    /\ UNCHANGED pipeline

ClientNext ==
    \/ ClientAuthorize
    \/ ClientDisable
    \/ ClientUpload
    \/ ClientOperation

ClientSpec == ClientInit /\ [][ClientNext]_vars

\* ------------------------------------------ upload_app and its session
\* udrop_client.py lines 486-489: __enter__ calls authorize; when it raises
\* the with statement is left without __exit__ being called
Enter(c, r) == Authorize(c, r)

\* the token is never given back
Exit_NoDisable(c, d) == c

\* udrop_client.py lines 491-497: __exit__ disables the token when one is
\* held and ignores every error of that call; the exception of the with
\* body, if any, stays the one that propagates
Exit(c, d) ==
    IF Unset(c.access_token)
    THEN c
    ELSE [DisableAccessToken(c, d) EXCEPT !.op = c.op, !.raised = c.raised]

\* udrop_client.py lines 35-44: UDropClient() raises when an API key is
\* missing or has the wrong length
KeyStates == {Ok, "missing"}

\* utilities.py lines 91-103: the client of one upload_app call.
\* k: the keys, r: the answer to authorize, o: how upload_file goes,
\* x: how file_path.unlink() goes, d: how the disable request goes.
\* Every exception leaves upload_app as an Exception.
Session(k, r, o, x, d) ==
    IF k /= Ok
    THEN Raise(NewClient, "upload_app", "Exception")
    ELSE LET c1 == Enter(NewClient, r)
         IN  IF c1.raised /= "none"
             THEN Raise(c1, "upload_app", "Exception")
             ELSE LET c2 == UploadFile(c1, o)
                      c3 == IF c2.raised = "none" /\ x /= Ok
                            THEN Raise(c2, "unlink", "OSError")
                            ELSE c2
                      c4 == Exit(c3, d)
                  IN  IF c4.raised /= "none"
                      THEN Raise(c4, "upload_app", "Exception")
                      ELSE Return(c4, "upload_app")

\* utilities.py lines 86-89: new_name given (decryption) or not (tweak)
NewName(file) == IF file.kind = "ipa" THEN DecryptedFile(file.app) ELSE file

\* the files a run hands to upload_app
Uploadable(fs) == {f \in fs : f.kind \in {"ipa", "tweaked"}}

\* a working directory with files to upload, and no client yet
SessionInit ==
    /\ pc = "idle"
    /\ i = 1
    /\ catalog = <<>>
    /\ disk = [ok |-> TRUE, apps |-> <<>>]
    /\ files = {BotFile(1), BotFile(2), TweakedFile(1)}
    /\ run = 0
    /\ faults = 0
    /\ calls = {}
    /\ prevCalls = {}
    /\ last = {}
    /\ resume = [on |-> FALSE, cat |-> <<>>]
    /\ visited = <<>>
    /\ udrop = NewClient

\* an input the call does not get to use
Unused == "-"
NoAnswer == [kind |-> Unused, token |-> None, account |-> None]
\* authorize handed out an access token and an account id
Acquired(k, r) ==
    k = Ok /\ r.kind = "data" /\ ~Unset(r.token) /\ ~Unset(r.account)

\* utilities.py lines 76-103: one call of upload_app. last: the call and
\* the inputs it used, udrop: the client the call used
UploadAppCall ==
    \E file \in Uploadable(files), k \in KeyStates :
    \E r \in (IF k = Ok THEN AuthorizeResponses ELSE {NoAnswer}) :
    \E o \in (IF Acquired(k, r) THEN UploadOutcomes ELSE {Unused}) :
    \E x \in (IF o = Ok THEN {Ok, Fail} ELSE {Unused}) :
    \E d \in (IF o /= Unused THEN {Ok, Fail} ELSE {Unused}) :
        LET c == Session(k, r, o, x, d)
            up == UploadApp(files, file, NewName(file),
                            [ok |-> c.raised = "none", url |-> Url(0, file.app, 1)])
        IN  /\ udrop' = c
            /\ files' = up.files
            /\ last' = {[file |-> file, keys |-> k, authorize |-> r, upload |-> o,
                         unlink |-> x, disable |-> d]}
            /\ UNCHANGED <<pc, i, catalog, disk, run, faults, calls, prevCalls,
                           resume, visited>>

SessionNext == UploadAppCall

SessionSpec == SessionInit /\ [][SessionNext]_vars

\* -------------------------------------- saving and loading on their own
\* version records in every stage, with and without release notes
RTRecords ==
    {[LatestVersion(v) EXCEPT !.description = n, !.decrypted_url = u[1],
                              !.tweaked_url = u[2]] :
        v \in VersionStrings, n \in {"notes", ""},
        u \in {<<None, None>>, <<Url(1, 1, 1), None>>, <<Url(1, 1, 1), Url(1, 1, 2)>>}}
RECURSIVE RTHistories(_)
RTHistories(n) ==
    IF n = 0 THEN {<<>>}
    ELSE RTHistories(n - 1)
         \cup {<<v>> \o h : v \in RTRecords, h \in {x \in RTHistories(n - 1) : Len(x) = n - 1}}
RTApps(a, n) ==
    {[name |-> AppNames[a], dylibs |-> d, versions |-> h] :
        d \in DylibLists, h \in RTHistories(n)}
\* catalogs of no, one or two apps; a second app has no dylib and at most
\* one record
RTCatalogs ==
    {<<>>} \cup {<<a>> : a \in RTApps(1, MaxHistory)}
    \cup {<<a, b>> : a \in RTApps(1, MaxHistory),
                     b \in {x \in RTApps(2, 1) : x.dylibs = <<>>}}

RoundTripInit ==
    /\ pc = "idle"
    /\ i = 1
    /\ catalog \in RTCatalogs
    /\ disk = CorruptDoc
    /\ files = {}
    /\ run = 0
    /\ faults = 0
    /\ calls = {}
    /\ prevCalls = {}
    /\ last = {}
    /\ resume = [on |-> FALSE, cat |-> <<>>]
    /\ visited = <<>>
    /\ udrop = NewClient

\* apps_config.to_yaml_file(apps_file)
SaveCatalog ==
    /\ run = 0
    /\ ~disk.ok
    /\ disk' = ToYamlFile(catalog, disk, Ok)
    /\ UNCHANGED <<pc, i, catalog, files, run, faults, calls, prevCalls, last, resume,
                   visited, udrop>>

\* a new process: AppsConfig.from_yaml_file(apps_file)
LoadCatalog ==
    /\ run = 0
    /\ disk.ok
    /\ catalog' = Parse(disk.apps)
    /\ run' = run + 1
    /\ UNCHANGED <<pc, i, disk, files, faults, calls, prevCalls, last, resume,
                   visited, udrop>>

RoundTripNext ==
    \/ SaveCatalog
    \/ LoadCatalog

RoundTripSpec == RoundTripInit /\ [][RoundTripNext]_vars

\* ================================================================ claims
Records(cat) ==
    UNION {{cat[a].versions[k] : k \in 1..Len(cat[a].versions)} : a \in 1..Len(cat)}
Persisted == IF disk.ok THEN Parse(disk.apps) ELSE <<>>
HasCall(cs, op, stage, a, res) == Call(op, stage, a, res) \in cs

\* C1 (stage-order invariant): in every reachable state, in memory and in
\* the persisted document, every version record of every app that has a
\* tweaked_url also has a decrypted_url.
StageOrderInvariant ==
    \A v \in Records(catalog) \cup Records(Persisted) :
        ~Unset(v.tweaked_url) => ~Unset(v.decrypted_url)

\* C1 witness: a run has ended in which the tweak loop worked on an app whose
\* head was decrypted in this run and whose older record is tweaked.
StageOrderWitness ==
    /\ pc = "done"
    /\ \E a \in Apps :
        /\ HasCall(calls, "save", "decryption", a, Ok)
        /\ HasCall(calls, "upload", "tweak", a, Ok)
        /\ Len(catalog[a].versions) = 2
        /\ Stage(catalog[a].versions[1]) = "DECRYPTED"
        /\ Stage(catalog[a].versions[2]) = "TWEAKED"

\* C2 (discovery idempotence), as claimed: when the lookup of an app returns
\* the version it returned in the previous run, and no save has failed, the
\* discovery iteration inserts nothing, changes nothing and saves nothing.
DiscoveryIdempotent ==
    [][(/\ pc = "discovery"
        /\ faults = 0
        /\ \E c \in last' \cap prevCalls : c.op = "lookup" /\ c.app = i /\ c.res /= Fail)
       => (/\ catalog' = catalog
           /\ disk' = disk
           /\ \A c \in last' : c.op /= "save")]_vars

\* C3 (version-mismatch guard): when the decryption service reports a
\* version that differs from the head record's version, no upload is
\* attempted for the app, the catalog is unchanged and nothing is saved.
VersionMismatchGuard ==
    [][(/\ pc = "decryption"
        /\ \E c \in last' : /\ c.op = "decrypt" /\ c.app = i /\ c.res /= Fail
                            /\ c.res /= HeadRecord(catalog[i]).version)
       => (/\ catalog' = catalog
           /\ disk' = disk
           /\ \A c \in last' : c.op \notin {"upload", "save"})]_vars

\* C3 witness: the latest iteration got a version from the decryption
\* service that is not the head's, and did nothing else.
VersionMismatchWitness ==
    \E c \in last :
        /\ c.op = "decrypt" /\ c.res /= Fail
        /\ c.res /= HeadRecord(catalog[c.app]).version
        /\ Unset(HeadRecord(catalog[c.app]).decrypted_url)
        /\ last = {c}

BStepsSucceed(b) ==
    /\ HasCall(calls, "download_dylibs", "tweak", b, Ok)
    /\ HasCall(calls, "download_file", "tweak", b, Ok)
    /\ HasCall(calls, "cyan", "tweak", b, Ok)
    /\ HasCall(calls, "upload", "tweak", b, Ok)
\* C4 (error isolation in the tweak stage), as claimed: when cyan fails for
\* app A, and for a later app B the dylib downloads, the artifact download,
\* cyan and the upload all succeed, B's head is TWEAKED at the end of the run.
TweakErrorIsolation ==
    (pc = "done") =>
        \A a \in Apps, b \in Apps :
            (/\ a < b
             /\ HasCall(calls, "cyan", "tweak", a, "CalledProcessError")
             /\ BStepsSucceed(b))
            => Stage(HeadRecord(catalog[b])) = "TWEAKED"

SameLookups == Lookups(calls) \subseteq prevCalls

\* C5 (resume safety), as claimed: in the fresh run that follows a run
\* terminated right after a decryption-stage save, with every store lookup
\* answering as it did in the terminated run, no version record is inserted
\* and the decryption service is not called for an app whose head was
\* already decrypted at the termination (so the run continues from the
\* catalog the uninterrupted run would have continued from).
ResumeSafety ==
    (resume.on /\ pc /= "idle" /\ SameLookups) =>
        /\ \A a \in Apps : Len(catalog[a].versions) = Len(resume.cat[a].versions)
        /\ \A c \in calls :
            c.op = "decrypt" => Unset(HeadRecord(resume.cat[c.app]).decrypted_url)

\* C6 (no stage-wide abort), as claimed: no error raised while one app is
\* processed escapes the loop: after a successful load a run never ends on
\* an uncaught exception that leaves later apps and stages unprocessed.
NoStageWideAbort == \A c \in calls : c.op /= "crash"

SaveFailed == \E c \in calls : c.op = "save" /\ c.res /= Ok

\* C7 (a save failure is fatal), as claimed: once a save of the catalog has
\* failed in a run, the run makes no further collaborator call and no
\* further change to the in-memory catalog; and a run whose load fails ends
\* without any collaborator call.
SaveFailureFatal ==
    [][/\ (SaveFailed /\ run' = run) => (calls' = calls /\ catalog' = catalog)
       /\ (Stopped /\ ~disk.ok /\ run' /= run) => (pc' = "crashed" /\ calls' = {})]_vars

OneTransition(c1, c2) ==
    \E a \in 1..Len(c1) :
        /\ Len(c2) = Len(c1)
        /\ \A b \in 1..Len(c1) : b /= a => c2[b] = c1[b]
        /\ c2[a].name = c1[a].name /\ c2[a].dylibs = c1[a].dylibs
        /\ \/ /\ Len(c2[a].versions) = Len(c1[a].versions) + 1
              /\ Tail(c2[a].versions) = c1[a].versions
              /\ Stage(c2[a].versions[1]) = "DISCOVERED"
           \/ /\ c1[a].versions /= <<>>
              /\ Len(c2[a].versions) = Len(c1[a].versions)
              /\ Tail(c2[a].versions) = Tail(c1[a].versions)
              /\ Stage(c1[a].versions[1]) = "DISCOVERED"
              /\ Stage(c2[a].versions[1]) = "DECRYPTED"
              /\ c2[a].versions[1] =
                    [c1[a].versions[1] EXCEPT !.decrypted_url = c2[a].versions[1].decrypted_url]
           \/ /\ c1[a].versions /= <<>>
              /\ Len(c2[a].versions) = Len(c1[a].versions)
              /\ Tail(c2[a].versions) = Tail(c1[a].versions)
              /\ Stage(c1[a].versions[1]) = "DECRYPTED"
              /\ Stage(c2[a].versions[1]) = "TWEAKED"
              /\ c2[a].versions[1] =
                    [c1[a].versions[1] EXCEPT !.tweaked_url = c2[a].versions[1].tweaked_url,
                                              !.size = c2[a].versions[1].size]
\* C8 (persist after every transition), as claimed: whenever a loop
\* iteration has finished, and at the end of the run, the persisted document
\* equals the in-memory catalog, and each new document differs from the one
\* before it by exactly one stage transition.
PersistAfterTransition ==
    [][/\ (Running' \/ pc' = "done") => (disk'.ok /\ Parse(disk'.apps) = catalog')
       /\ (disk' /= disk /\ disk.ok /\ disk'.ok)
            => OneTransition(Parse(disk.apps), Parse(disk'.apps))]_vars

\* a record is the same record as long as its distance from the oldest
\* record of its app is the same: records are only ever inserted at the head
KeptUrls(c1, c2) ==
    \A a \in 1..Len(c1) :
        /\ a <= Len(c2)
        /\ LET n1 == Len(c1[a].versions)
               n2 == Len(c2[a].versions)
           IN  \A k \in 1..n1 :
                 LET v1 == c1[a].versions[k]
                     k2 == k + n2 - n1
                 IN  /\ ~Unset(v1.decrypted_url) =>
                          (k2 >= 1 /\ c2[a].versions[k2].decrypted_url = v1.decrypted_url)
                     /\ ~Unset(v1.tweaked_url) =>
                          (k2 >= 1 /\ c2[a].versions[k2].tweaked_url = v1.tweaked_url)

\* C9 (at most once per field), as claimed: a decrypted_url or tweaked_url
\* that is set in the in-memory catalog has the same value in every later
\* in-memory catalog, of this run and of the run that follows it (stated
\* here for runs that end without an uncaught exception).
AtMostOncePerField ==
    [][(catalog /= <<>> /\ catalog' /= <<>> /\ pc /= "crashed")
        => KeptUrls(catalog, catalog')]_vars

\* C9 as amended: within one run a url that is set in memory keeps its
\* value; every document written holds the urls set in memory, a readable
\* document keeps the urls of the readable document before it, and a run
\* starts with the urls of the document it loads.  (A url set in memory
\* whose save failed is not in the document: the next run finds it unset.)
AtMostOncePerFieldSaved ==
    [][/\ (run' = run /\ catalog /= <<>>) => KeptUrls(catalog, catalog')
       /\ (disk.ok /\ disk'.ok) => KeptUrls(Parse(disk.apps), Parse(disk'.apps))
       /\ (disk' /= disk /\ disk'.ok) => KeptUrls(catalog, Parse(disk'.apps))
       /\ (run' /= run /\ catalog' /= <<>>) => KeptUrls(Parse(disk.apps), catalog')]_vars

\* C9 witness: the second run has ended and a record still has the
\* decrypted_url that the first run set and saved.
AtMostOnceWitness ==
    /\ pc = "done"
    /\ run = 2
    /\ \E a \in Apps : \E v \in Records(catalog) : v.decrypted_url = Url(1, a, 1)

\* C10 (discovery insertion condition), as claimed: when the lookup of an
\* app succeeds, a record is inserted if and only if the history is empty or
\* the returned version differs from the version of the head record.
DiscoveryInsertsIffHeadDiffers ==
    [][pc = "discovery" =>
        \A c \in last' :
            (c.op = "lookup" /\ c.app = i /\ c.res /= Fail) =>
                ((Len(catalog'[i].versions) = Len(catalog[i].versions) + 1)
                 <=> (\/ catalog[i].versions = <<>>
                      \/ HeadRecord(catalog[i]).version /= c.res))]_vars

\* the three loops over apps_config.apps, one after the other
StageNames == <<"discovery", "decryption", "tweak">>
StageOrder ==
    [k \in 1..(Len(StageNames) * Len(AppNames)) |->
        Visit(StageNames[((k - 1) \div Len(AppNames)) + 1], ((k - 1) % Len(AppNames)) + 1)]
IsPrefix(s, t) == Len(s) <= Len(t) /\ \A k \in 1..Len(s) : s[k] = t[k]
AllVisited(stage) ==
    \A a \in Apps : \E k \in 1..Len(visited) : visited[k] = Visit(stage, a)

\* C11 (fixed stage order): within one run the loop iterations are entered in
\* the order discovery of every app, decryption of every app, tweak of every
\* app, each stage in catalog order and each app at most once per stage; the
\* decryption service is called only after discovery was entered for every
\* app, and cyan and the tweak-stage downloads only after the decryption
\* loop was entered for every app.
FixedStageOrder ==
    [][/\ IsPrefix(visited', StageOrder)
       /\ \A c \in last' :
            /\ c.op = "decrypt" => AllVisited("discovery")
            /\ c.op \in {"download_dylibs", "download_file", "cyan"}
                 => AllVisited("decryption")]_vars

\* C11 witness: a run went through all three loops, the decryption service
\* and cyan were called in it.
FixedStageOrderWitness ==
    /\ pc = "done"
    /\ visited = StageOrder
    /\ \E c \in calls : c.op = "decrypt"
    /\ \E c \in calls : c.op = "cyan"

\* the decryption iteration of app i in which the service returned the head's
\* version and the upload succeeded
DecryptedAndUploaded ==
    /\ pc = "decryption"
    /\ catalog[i].versions /= <<>>
    /\ Unset(HeadRecord(catalog[i]).decrypted_url)
    /\ HasCall(last', "decrypt", "decryption", i, HeadRecord(catalog[i]).version)
    /\ HasCall(last', "upload", "decryption", i, Ok)
\* the head of app i got the link of the artifact store and nothing else
\* changed in it; the local artifact is gone under both of its names
HeadDecryptedInMemory(url) ==
    /\ catalog'[i].versions[1] = [catalog[i].versions[1] EXCEPT !.decrypted_url = url]
    /\ BotFile(i) \notin files'
    /\ DecryptedFile(i) \notin files'
HeadDecryptedOnDisk(url) ==
    /\ disk'.ok
    /\ Parse(disk'.apps)[i].versions[1].decrypted_url = url

\* C12 (decryption success transition), as claimed: when the head has no
\* decrypted_url, the decryption service returns the head's version and the
\* upload succeeds, then the head's decrypted_url is the link the artifact
\* store returned, no other field of the head changed, the local artifact
\* file is gone, and the persisted catalog contains the link.
DecryptionSuccess ==
    [][DecryptedAndUploaded =>
        \E u \in UploadResults(i, 1) :
            /\ u.ok
            /\ HeadDecryptedInMemory(u.url)
            /\ HeadDecryptedOnDisk(u.url)]_vars

\* C12 as amended: under the same conditions the head's decrypted_url is the
\* returned link, no other field of the head changed and the local artifact
\* file is gone; the persisted catalog contains the link when the save that
\* follows succeeds, and when that save fails the link is in memory only.
DecryptionSuccessSaved ==
    [][DecryptedAndUploaded =>
        \E u \in UploadResults(i, 1) :
            /\ u.ok
            /\ HeadDecryptedInMemory(u.url)
            /\ HasCall(last', "save", "decryption", i, Ok) => HeadDecryptedOnDisk(u.url)
            /\ ~HasCall(last', "save", "decryption", i, Ok) =>
                  \A v \in Records(Persisted') : v.decrypted_url /= u.url]_vars

\* C12 witness: the latest iteration decrypted, uploaded and saved an app;
\* its head has the link in memory and in the document, no local file is left.
DecryptionSuccessWitness ==
    \E a \in Apps :
        /\ HasCall(last, "save", "decryption", a, Ok)
        /\ HasCall(last, "upload", "decryption", a, Ok)
        /\ HasCall(last, "decrypt", "decryption", a, HeadRecord(catalog[a]).version)
        /\ HeadRecord(catalog[a]).decrypted_url = Url(run, a, 1)
        /\ disk.ok /\ HeadRecord(Parse(disk.apps)[a]).decrypted_url = Url(run, a, 1)
        /\ BotFile(a) \notin files /\ DecryptedFile(a) \notin files

\* the tweak iteration of app i in which every download, cyan and the upload
\* of the patched artifact succeeded
TweakedAndUploaded ==
    /\ pc = "tweak"
    /\ HasCall(last', "download_dylibs", "tweak", i, Ok)
    /\ HasCall(last', "download_file", "tweak", i, Ok)
    /\ HasCall(last', "cyan", "tweak", i, Ok)
    /\ HasCall(last', "upload", "tweak", i, Ok)

\* C13 (tweak success transition), as claimed: for a DECRYPTED head, when the
\* component downloads, the artifact download, cyan and the upload of the
\* patched artifact succeed, the head's tweaked_url is the link the artifact
\* store returned, its size is the patched artifact's size, the local patched
\* artifact is deleted, the head is TWEAKED, and the document written by a
\* successful save holds both changes.
TweakSuccess ==
    [][TweakedAndUploaded =>
        \E u \in UploadResults(i, 2) :
            /\ u.ok
            /\ catalog'[i].versions[1] =
                  [catalog[i].versions[1] EXCEPT !.tweaked_url = u.url, !.size = 120]
            /\ Stage(HeadRecord(catalog'[i])) = "TWEAKED"
            /\ TweakedFile(i) \notin files'
            /\ \E c \in last' : c.op = "save"
            /\ HasCall(last', "save", "tweak", i, Ok) =>
                  (disk'.ok /\ Parse(disk'.apps)[i] = catalog'[i])]_vars

\* the iteration that starts handles app i, whose head has both links, and
\* if it is a discovery iteration the store reports the head's version
TweakedHeadSameVersion ==
    /\ Running
    /\ visited' = Append(visited, Visit(pc, i))
    /\ catalog[i].versions /= <<>>
    /\ Stage(HeadRecord(catalog[i])) = "TWEAKED"
    /\ pc = "discovery" =>
          HasCall(last', "lookup", "discovery", i, HeadRecord(catalog[i]).version)

\* C14 (TWEAKED is terminal), as claimed: for an app whose head has both
\* links, in a run whose discovery reports the head's version, no iteration
\* of any stage changes a record of the app, and none calls the decryption
\* service, downloads a component or an artifact, runs cyan or uploads.
TweakedIsTerminal ==
    [][TweakedHeadSameVersion =>
        /\ catalog'[i] = catalog[i]
        /\ \A c \in last' :
              c.app = i =>
                c.op \notin {"decrypt", "download_dylibs", "download_file", "cyan", "upload"}]_vars

NoCredentials(c) == Unset(c.access_token) \/ Unset(c.account_id)

\* C15 (authentication precondition): on a client that holds no access
\* token or no account id, every method except authorize raises the
\* not-authenticated error, sends no request and leaves the credentials as
\* they are.
AuthenticationPrecondition ==
    [][(NoCredentials(udrop) /\ udrop'.op /= "authorize") =>
        /\ udrop'.raised = "NotAuthenticated"
        /\ udrop'.sent = udrop.sent
        /\ udrop'.access_token = udrop.access_token
        /\ udrop'.account_id = udrop.account_id]_vars

\* C15 witness: after a session was opened and its token disabled,
\* upload_file was refused without a request being sent.
AuthenticationWitness ==
    /\ udrop.op = "upload_file"
    /\ udrop.raised = "NotAuthenticated"
    /\ udrop.sent = <<"authorize", "disable_access_token">>
    /\ NoCredentials(udrop)

Iteration == visited' = Append(visited, Visit(pc, i))

\* C17 (stage skip guards): the decryption service is called for an app only
\* when its head's decrypted_url is unset at that moment; the tweak-stage
\* downloads and cyan are started for an app only when its head's
\* decrypted_url is set and its tweaked_url is unset at that moment.
StageSkipGuards ==
    [][Iteration =>
        \A c \in last' :
            /\ c.op = "decrypt" =>
                 /\ catalog[c.app].versions /= <<>>
                 /\ Unset(HeadRecord(catalog[c.app]).decrypted_url)
            /\ c.op \in {"download_dylibs", "download_file", "cyan"} =>
                 /\ catalog[c.app].versions /= <<>>
                 /\ ~Unset(HeadRecord(catalog[c.app]).decrypted_url)
                 /\ Unset(HeadRecord(catalog[c.app]).tweaked_url)]_vars

\* C17 witness: in one run the decryption service was called for an app and
\* then cyan was run for it, while another app with a finished head was
\* passed over by both loops.
StageSkipWitness ==
    /\ pc = "done"
    /\ \E a \in Apps, b \in Apps :
        /\ \E c \in calls : c.op = "decrypt" /\ c.app = a
        /\ \E c \in calls : c.op = "cyan" /\ c.app = a
        /\ Stage(HeadRecord(catalog[b])) = "TWEAKED"
        /\ \A c \in calls : c.app = b => c.op = "lookup"

\* a collaborator call that failed: a lookup, a decryption, an upload or a
\* download that raised, or cyan ending with a non-zero status
FailedCall(c) == c.res = Fail \/ (c.op = "cyan" /\ c.res = "CalledProcessError")
Attempt(stage) ==
    IF stage = "discovery" THEN "lookup"
    ELSE IF stage = "decryption" THEN "decrypt"
    ELSE "download_dylibs"
InStage(app, stage) ==
    \/ stage = "discovery"
    \/ /\ app.versions /= <<>>
       /\ Stage(HeadRecord(app)) = (IF stage = "decryption" THEN "DISCOVERED" ELSE "DECRYPTED")

\* C18 (a failure leaves the state unchanged and is retried on the next run),
\* as claimed: an iteration in which a collaborator call fails leaves the
\* app's records as they were, in memory and in the document; a collaborator
\* that failed for an app is not called for it again in the same run; the
\* run that follows loads the app in the stage in which the failed run left
\* it; and an app found in a stage is attempted by that stage's loop
\* (stated here for runs that end without an uncaught exception).
FailureRetriedNextRun ==
    [][/\ (Iteration /\ \E c \in last' : FailedCall(c)) =>
            (catalog'[i] = catalog[i] /\ disk' = disk)
       /\ Iteration =>
            \A c \in last', d \in calls :
                (FailedCall(d) /\ d.app = c.app) => d.op /= c.op
       /\ (pc = "done" /\ run' = run + 1 /\ pc' = "discovery") =>
            \A c \in calls :
                (FailedCall(c) /\ c.stage /= "discovery") =>
                    /\ catalog'[c.app].versions /= <<>>
                    /\ Stage(HeadRecord(catalog'[c.app])) = Stage(HeadRecord(catalog[c.app]))
       /\ (Iteration /\ InStage(catalog[i], pc)) =>
            \E c \in last' : c.op = Attempt(pc) /\ c.app = i]_vars

\* C19 (Patch Tool invocation with components), as claimed: for an app with
\* a DECRYPTED head and one or more dylibs, when every dylib download and the
\* download of the decrypted artifact succeed, cyan is invoked exactly once
\* for the app in that run (with the artifact, the output path, the dylib
\* paths, the name and the bundle id).
PatchToolInvoked ==
    [][(/\ Iteration
        /\ pc = "tweak"
        /\ Len(catalog[i].dylibs) >= 1
        /\ HasCall(last', "download_dylibs", "tweak", i, Ok)
        /\ HasCall(last', "download_file", "tweak", i, Ok))
       => /\ Cardinality({c \in calls' : c.op = "cyan" /\ c.app = i}) = 1
          /\ \A c \in last' : c.op /= "crash"]_vars

Requests(c, endpoint) == Cardinality({n \in 1..Len(c.sent) : c.sent[n] = endpoint})
\* authorize handed the client an access token and an account id
SessionAcquired(c) == Acquired(c.keys, c.authorize)

\* C21 (scoped Artifact Store session), as claimed: a call of upload_app
\* asks for its session first, uploads no more than once, and whenever it
\* returns or raises the client it used holds no access token and no account
\* id any more.
SessionScoped ==
    \A c \in last :
        /\ Requests(udrop, "file/upload") <= 1
        /\ c.keys = Ok => (udrop.sent /= <<>> /\ udrop.sent[1] = "authorize")
        /\ Unset(udrop.access_token) /\ Unset(udrop.account_id)

\* C21 as amended: the session is asked for first and once, there is at most
\* one upload, and exactly one when the session was acquired and the file
\* could be opened; a session that was acquired ends with the disable
\* request, also when the upload failed, and the client holds no access
\* token and no account id any more when that request succeeded; when it
\* failed the client still holds both.
SessionReleasedWhenDisabled ==
    \A c \in last :
        /\ Requests(udrop, "file/upload") <= 1
        /\ c.keys = Ok =>
            (Requests(udrop, "authorize") = 1 /\ udrop.sent[1] = "authorize")
        /\ SessionAcquired(c) =>
            /\ c.upload /= "no_file" <=> Requests(udrop, "file/upload") = 1
            /\ udrop.sent[Len(udrop.sent)] = "disable_access_token"
            /\ Requests(udrop, "disable_access_token") = 1
            /\ c.disable = Ok => (Unset(udrop.access_token) /\ Unset(udrop.account_id))
            /\ c.disable /= Ok => (~Unset(udrop.access_token) /\ ~Unset(udrop.account_id))
        /\ udrop.raised = "none" <=>
            (SessionAcquired(c) /\ c.upload = Ok /\ c.unlink = Ok)

\* C21 witness: the upload failed after the session was acquired, and the
\* token was given back before upload_app raised.
SessionReleasedWitness ==
    /\ udrop.op = "upload_app"
    /\ udrop.raised = "Exception"
    /\ udrop.sent = <<"authorize", "file/upload", "disable_access_token">>
    /\ Unset(udrop.access_token)
    /\ Unset(udrop.account_id)

\* C22 (authorize establishes the session), as claimed: when authorize
\* returns without raising, the client holds an access token and an account
\* id and an upload_file that follows passes the authentication check; when
\* authorize raises, the client's access token and account id are as before.
AuthorizeEstablishesSession ==
    [][udrop'.op = "authorize" =>
        IF udrop'.raised = "none"
        THEN /\ ~NoCredentials(udrop')
             /\ \A o \in UploadOutcomes :
                    UploadFile(udrop', o).raised /= "NotAuthenticated"
        ELSE /\ udrop'.access_token = udrop.access_token
             /\ udrop'.account_id = udrop.account_id]_vars

\* every app of c1 is in c2 at its place, with a history at least as long
NothingLost(c1, c2) ==
    /\ Len(c2) >= Len(c1)
    /\ \A a \in 1..Len(c1) :
        /\ c2[a].name = c1[a].name
        /\ Len(c2[a].versions) >= Len(c1[a].versions)

\* the iteration for app i put record v in front of the history
InsertedAtHead ==
    /\ Len(catalog'[i].versions) = Len(catalog[i].versions) + 1
    /\ \A k \in 1..Len(catalog[i].versions) :
        catalog'[i].versions[k + 1] = catalog[i].versions[k]
    /\ Unset(HeadRecord(catalog'[i]).decrypted_url)
    /\ Unset(HeadRecord(catalog'[i]).tweaked_url)
    /\ \E c \in last' : c.op = "lookup" /\ HeadRecord(catalog'[i]).version = c.res
    /\ catalog'[i] = [catalog[i] EXCEPT !.versions = catalog'[i].versions]
    /\ \A a \in 1..Len(catalog) : a /= i => catalog'[a] = catalog[a]
    /\ Len(catalog') = Len(catalog)

\* C23 (discovery insertion shape), as claimed: a Discovery iteration that
\* changes the catalog puts one new record with both urls unset in front
\* of the previous history, which keeps its order and all its field values,
\* and changes no other app; from one in-memory catalog to the next, in the
\* same run or the run that follows, no history gets shorter and no app is
\* removed (stated here for runs that end without an uncaught exception).
DiscoveryInsertionShape ==
    [][/\ (Iteration /\ pc = "discovery" /\ catalog' /= catalog) => InsertedAtHead
       /\ (catalog /= <<>> /\ catalog' /= <<>> /\ pc /= "crashed")
            => NothingLost(catalog, catalog')]_vars

\* C23 as amended: the insertion is as claimed; within one run no history
\* gets shorter and no app is removed; a readable document has every app
\* and at least the records of the readable document before it, and a run
\* starts with the histories of the document it loads.  (A record inserted
\* in memory whose save failed is not in the document: the next run starts
\* without it.)
DiscoveryInsertionShapeSaved ==
    [][/\ (Iteration /\ pc = "discovery" /\ catalog' /= catalog) => InsertedAtHead
       /\ (run' = run /\ catalog /= <<>>) => NothingLost(catalog, catalog')
       /\ (disk' /= disk /\ disk.ok /\ disk'.ok)
            => NothingLost(Parse(disk.apps), Parse(disk'.apps))
       /\ (run' /= run /\ catalog' /= <<>>) => NothingLost(Parse(disk.apps), catalog')]_vars

\* C23 witness: Discovery has put a new record in front of a history whose
\* older records are still there as they were, and has saved the catalog.
DiscoveryInsertionWitness ==
    \E a \in Apps :
        /\ HasCall(last, "save", "discovery", a, Ok)
        /\ Len(catalog[a].versions) = 3
        /\ \E c \in last : c.op = "lookup" /\ HeadRecord(catalog[a]) = LatestVersion(c.res)
        /\ catalog[a].versions[2] = NewerRecord
        /\ catalog[a].versions[3] = InitRecord("TWEAKED")
        /\ disk.ok /\ Parse(disk.apps) = catalog

\* C24 (frame of the Decryption and Tweak stages): an iteration of one of
\* these stages leaves the number and order of the apps and of every app's
\* records as they are, changes no app but the one being processed and no
\* record of it but the head, and in the head nothing but decrypted_url
\* (Decryption) or tweaked_url and size (Tweak).
StageFrame ==
    [][(Iteration /\ pc \in {"decryption", "tweak"}) =>
        /\ Len(catalog') = Len(catalog)
        /\ \A a \in 1..Len(catalog) : a /= i => catalog'[a] = catalog[a]
        /\ catalog'[i] = [catalog[i] EXCEPT !.versions = catalog'[i].versions]
        /\ Len(catalog'[i].versions) = Len(catalog[i].versions)
        /\ \A k \in 2..Len(catalog[i].versions) :
            catalog'[i].versions[k] = catalog[i].versions[k]
        /\ catalog[i].versions /= <<>> =>
            LET old == HeadRecord(catalog[i])
                new == HeadRecord(catalog'[i])
            IN  IF pc = "decryption"
                THEN new = [old EXCEPT !.decrypted_url = new.decrypted_url]
                ELSE new = [old EXCEPT !.tweaked_url = new.tweaked_url,
                                       !.size = new.size]]_vars

\* C24 witness: Decryption has set the decrypted_url of the head of a
\* history of two records, and the older record is as it was loaded.
StageFrameWitness ==
    \E a \in Apps :
        /\ HasCall(last, "save", "decryption", a, Ok)
        /\ Len(catalog[a].versions) = 2
        /\ ~Unset(HeadRecord(catalog[a]).decrypted_url)
        /\ HeadRecord(catalog[a]) =
              [LatestVersion(HeadRecord(catalog[a]).version) EXCEPT
                  !.decrypted_url = HeadRecord(catalog[a]).decrypted_url]
        /\ catalog[a].versions[2] = InitRecord("TWEAKED")
====
